---- MODULE Spec2Model ----
(***************************************************************************)
(* State-machine model of MinerviniScreener.py: the batched, retrying     *)
(* download of one year of bars, the per-ticker trend/liquidity cascade,  *)
(* the relative-strength stage on the survivors, the merge, the           *)
(* percentile rating and the sorted output.                               *)
(*                                                                         *)
(* A price series is run-length encoded, oldest run first: a run          *)
(* [n, close, vol, nan] stands for n consecutive bars with that close and *)
(* volume (nan = TRUE: the close is NaN).  Rolling means are kept as      *)
(* (sum, window) pairs and compared by cross-multiplication, so every     *)
(* comparison the script makes on floats is made here exactly.            *)
(***************************************************************************)
EXTENDS Integers, Sequences, FiniteSets, TLC

\* ---------------------------------------------------------------- CONFIG
MIN_VOLUME == 300000
MA_SHORT == 50
MA_MED == 150
MA_LONG == 200
MAX_RETRIES == 3
\* The script sets BATCH_SIZE = 15; the batch width is scaled down so that a
\* universe of MaxTickers tickers spans several batches.
BATCH_SIZE == 2
\* Largest ticker universe explored.
MaxTickers == 4
\* The rating is applied on its own to every list of at most MaxScores
\* scores (ties and NaN included) and to lists of 1..MaxDistinct distinct
\* scores.
MaxScores == 3
MaxDistinct == 100

VARIABLES
  tickers,         \* the loaded universe (line 38), a list of distinct symbols
  i,               \* start index of the current batch (0-based, line 55)
  attempt,         \* index of the next download attempt of the batch (line 58)
  pc,              \* position of the script
  data,            \* the frame of the last successful batch download
  results,         \* accumulator of survivor rows (line 41)
  failed_tickers,  \* accumulator of failure records (line 42)
  rs_data,         \* the extended-history frame (line 158)
  df,              \* the candidate frame (lines 154, 201, 202, 209)
  lastSleep,       \* kind of the last time.sleep since the last download call
  calls,           \* number of yf.download calls made for the current batch
  batchLog,        \* outcome of every batch processed so far, in order
  error            \* the uncaught exception that ended the run, if any

vars == <<tickers, i, attempt, pc, data, results, failed_tickers, rs_data, df,
          lastSleep, calls, batchLog, error>>

\* ------------------------------------------------------- series helpers
Min2(a, b) == IF a <= b THEN a ELSE b

Max2(a, b) == IF a >= b THEN a ELSE b

Run(n, close, vol) == [n |-> n, close |-> close, vol |-> vol, nan |-> FALSE]

NaNRun(n) == [n |-> n, close |-> 0, vol |-> 0, nan |-> TRUE]

\* len(df)
RECURSIVE BarCount(_)
BarCount(runs) ==
  IF runs = <<>> THEN 0 ELSE runs[1].n + BarCount(Tail(runs))

\* Sum of field f over the k bars that end skip bars before the last one.
RECURSIVE WindowSum(_, _, _, _)
WindowSum(runs, f, skip, k) ==
  IF k = 0 \/ runs = <<>> THEN 0
  ELSE LET last == runs[Len(runs)]
           front == SubSeq(runs, 1, Len(runs) - 1)
       IN  IF skip >= last.n
           THEN WindowSum(front, f, skip - last.n, k)
           ELSE LET take == Min2(last.n - skip, k)
                IN  take * last[f] + WindowSum(front, f, 0, k - take)

\* Whether one of those k bars has a NaN close.
RECURSIVE WindowHasNaN(_, _, _)
WindowHasNaN(runs, skip, k) ==
  IF k = 0 \/ runs = <<>> THEN FALSE
  ELSE LET last == runs[Len(runs)]
           front == SubSeq(runs, 1, Len(runs) - 1)
       IN  IF skip >= last.n
           THEN WindowHasNaN(front, skip - last.n, k)
           ELSE LET take == Min2(last.n - skip, k)
                IN  last.nan \/ WindowHasNaN(front, 0, k - take)

\* close.rolling(k).mean().iloc[-1 - skip]: NaN (def = FALSE) when fewer than
\* k bars end there or one of them is NaN.
Rolling(runs, k, skip) ==
  LET ok == BarCount(runs) >= skip + k /\ ~WindowHasNaN(runs, skip, k)
  IN  [def |-> ok,
       sum |-> IF ok THEN WindowSum(runs, "close", skip, k) ELSE 0,
       win |-> k]

\* a > b and a >= b on floats: FALSE when either side is NaN.
Gt(a, b) == a.def /\ b.def /\ a.sum * b.win > b.sum * a.win

Ge(a, b) == a.def /\ b.def /\ a.sum * b.win >= b.sum * a.win

\* close.min() and close.max(): NaN bars are skipped.
RECURSIVE MinClose(_)
MinClose(runs) ==
  IF runs = <<>> THEN 0
  ELSE LET rest == MinClose(Tail(runs))
       IN  IF runs[1].nan \/ runs[1].n = 0 THEN rest
           ELSE IF rest = 0 THEN runs[1].close
           ELSE Min2(runs[1].close, rest)

RECURSIVE MaxClose(_)
MaxClose(runs) ==
  IF runs = <<>> THEN 0
  ELSE LET rest == MaxClose(Tail(runs))
       IN  IF runs[1].nan \/ runs[1].n = 0 THEN rest
           ELSE Max2(runs[1].close, rest)

\* round(num / den) for den > 0, ties to the even integer.
RoundHalfEven(num, den) ==
  LET q == num \div den
      r == num % den
  IN  IF 2 * r < den THEN q
      ELSE IF 2 * r > den THEN q + 1
      ELSE IF q % 2 = 0 THEN q ELSE q + 1

\* ------------------------------------------- trend template, lines 78-146
LastClose(runs) ==
  LET last == runs[Len(runs)]
  IN  [def |-> ~last.nan, sum |-> last.close, win |-> 1]

\* price / low_52w < 1.25 (line 120), with price and low_52w positive.
LowGateFailsExclusive(price, low) == 100 * price <= 125 * low

LowGateFails(price, low) == 100 * price < 125 * low

\* price / high_52w < 0.75 (line 123).
HighGateFailsExclusive(price, high) == 100 * price <= 75 * high

HighGateFails(price, high) == 100 * price < 75 * high

\* price > ma150 > ma200 and ma50 > ma150 > ma200 (lines 108-111).
StackOk(runs) ==
  LET price == LastClose(runs)
      ma50 == Rolling(runs, MA_SHORT, 0)
      ma150 == Rolling(runs, MA_MED, 0)
      ma200 == Rolling(runs, MA_LONG, 0)
  IN  /\ Gt(price, ma150) /\ Gt(ma150, ma200)
      /\ Gt(ma50, ma150) /\ Gt(ma150, ma200)

\* ma200.iloc[-20] >= ma200.iloc[-1] (line 114); FALSE when the earlier
\* mean is NaN, which is the case for fewer than 219 bars.
SlopeFails(runs) ==
  Ge(Rolling(runs, MA_LONG, 19), Rolling(runs, MA_LONG, 0))

\* volume.tail(50).mean() < MIN_VOLUME (line 126).
VolumeFails(runs) == WindowSum(runs, "vol", 0, 50) < 50 * MIN_VOLUME

\* The body of the per-ticker try block: the name of the place where the
\* script leaves it.  Every label but "Pass" and "Exception" is a bare
\* `continue`; "Exception" is the KeyError of df["Close"] / df["Volume"].
TrendScreen(frame) ==
  LET runs == frame.runs
      n == BarCount(runs)
  IN  IF n = 0 \/ n < MA_LONG THEN "InsufficientHistory"
      ELSE IF ~({"Close", "Volume"} \subseteq frame.cols) THEN "Exception"
      ELSE IF \/ ~Rolling(runs, MA_SHORT, 0).def
              \/ ~Rolling(runs, MA_MED, 0).def
              \/ ~Rolling(runs, MA_LONG, 0).def THEN "MissingIndicator"
      ELSE IF ~StackOk(runs) THEN "TrendRule"
      ELSE IF SlopeFails(runs) THEN "Slope"
      ELSE IF LowGateFails(LastClose(runs).sum, MinClose(runs)) THEN "Low52w"
      ELSE IF HighGateFails(LastClose(runs).sum, MaxClose(runs)) THEN "High52w"
      ELSE IF VolumeFails(runs) THEN "Volume"
      ELSE "Pass"

\* str(e) of the KeyError raised for the first missing column.
ExceptionText(frame) ==
  IF "Close" \notin frame.cols THEN "'Close'" ELSE "'Volume'"

\* The dict appended to results (lines 133-143).  Price and the moving
\* averages are in hundredths, the two percentages in tenths.
ResultRow(ticker, frame) ==
  LET runs == frame.runs
      price == LastClose(runs).sum
      high == MaxClose(runs)
      low == MinClose(runs)
  IN  [Ticker |-> ticker,
       Sector |-> "Unknown",
       Industry |-> "Unknown",
       Price |-> 100 * price,
       PctFromHigh |-> RoundHalfEven(1000 * (high - price), high),
       PctFromLow |-> RoundHalfEven(1000 * (price - low), low),
       MA50 |-> RoundHalfEven(100 * Rolling(runs, MA_SHORT, 0).sum, MA_SHORT),
       MA150 |-> RoundHalfEven(100 * Rolling(runs, MA_MED, 0).sum, MA_MED),
       MA200 |-> RoundHalfEven(100 * Rolling(runs, MA_LONG, 0).sum, MA_LONG)]

\* The loop `for ticker in batch` (lines 78-146) over a downloaded frame d,
\* a function from the tickers the provider returned to their frames.  (A
\* frame without ticker level is the frame of the batch's one ticker; an
\* empty one is skipped like a missing key.)
RECURSIVE ScreenBatch(_, _, _, _)
ScreenBatch(batch, d, res, failed) ==
  IF batch = <<>> THEN [results |-> res, failed |-> failed]
  ELSE LET t == Head(batch)
           rest == Tail(batch)
       IN  IF t \notin DOMAIN d THEN ScreenBatch(rest, d, res, failed)
           ELSE LET exit == TrendScreen(d[t])
                IN  IF exit = "Pass"
                    THEN ScreenBatch(rest, d, Append(res, ResultRow(t, d[t])), failed)
                    ELSE IF exit = "Exception"
                    THEN ScreenBatch(rest, d, res,
                           Append(failed, [Ticker |-> t, Reason |-> ExceptionText(d[t])]))
                    ELSE ScreenBatch(rest, d, res, failed)

\* --------------------------------------------- provider answers, 1y pull
OHLCV == {"Close", "Volume"}

\* 252 bars: an old low, an old high, 50 bars at a, 150 at 100, 49 at c and
\* the last bar at 120.
TrendFrame(lo, hi, a, c, vol) ==
  [cols |-> OHLCV,
   runs |-> <<Run(1, lo, vol), Run(1, hi, vol), Run(50, a, vol),
              Run(150, 100, vol), Run(49, c, vol), Run(1, 120, vol)>>]

ShortFrame ==
  [cols |-> OHLCV,
   runs |-> <<Run(150, 100, MIN_VOLUME), Run(48, 110, MIN_VOLUME),
              Run(1, 120, MIN_VOLUME)>>]

EmptyFrame == [cols |-> OHLCV, runs |-> <<>>]

NoCloseFrame ==
  [cols |-> {"Volume"}, runs |-> TrendFrame(96, 160, 100, 110, MIN_VOLUME).runs]

NaNFrame ==
  [cols |-> OHLCV,
   runs |-> <<Run(52, 100, MIN_VOLUME), Run(150, 100, MIN_VOLUME),
              Run(49, 110, MIN_VOLUME), NaNRun(1)>>]

\* Exactly MA_LONG bars: ma200.iloc[-20] is NaN.
Bars200Frame ==
  [cols |-> OHLCV,
   runs |-> <<Run(1, 96, MIN_VOLUME - 1), Run(1, 160, MIN_VOLUME - 1),
              Run(148, 100, MIN_VOLUME - 1), Run(49, 110, MIN_VOLUME - 1),
              Run(1, 120, MIN_VOLUME - 1)>>]

Catalogue ==
  { ShortFrame, EmptyFrame, NoCloseFrame, NaNFrame, Bars200Frame,
    TrendFrame(96, 160, 100, 90, MIN_VOLUME),       \* stack broken
    TrendFrame(96, 160, 150, 110, MIN_VOLUME),      \* ma200 falling
    TrendFrame(97, 160, 100, 110, MIN_VOLUME),      \* price/low just under 1.25
    TrendFrame(96, 161, 100, 110, MIN_VOLUME),      \* price/high just under 0.75
    TrendFrame(96, 160, 100, 110, MIN_VOLUME - 1),  \* both ratios exact, thin volume
    TrendFrame(96, 160, 100, 110, MIN_VOLUME) }     \* both ratios exact, passes

NoData == [t \in {} |-> EmptyFrame]

\* ------------------------------------------------ batch loop, lines 55-149
Range(s) == {s[k] : k \in DOMAIN s}

\* batch = tickers[i:i + BATCH_SIZE] (line 56)
Batch(j) == SubSeq(tickers, j + 1, Min2(j + BATCH_SIZE, Len(tickers)))

NumBatches == (Len(tickers) + BATCH_SIZE - 1) \div BATCH_SIZE

\* The universe is a non-empty list of distinct symbols (an empty list runs
\* like a universe without survivors).
Init ==
  /\ tickers \in {[k \in 1..n |-> k] : n \in 1..MaxTickers}
  /\ i = 0
  /\ attempt = 0
  /\ pc = "fetch"
  /\ data = NoData
  /\ results = <<>>
  /\ failed_tickers = <<>>
  /\ rs_data = NoData
  /\ df = [cols |-> {}, rows |-> <<>>]
  /\ lastSleep = "none"
  /\ calls = 0
  /\ batchLog = <<>>
  /\ error = "none"

\* The step of `for i in range(0, len(tickers), BATCH_SIZE)` to the next
\* batch, or out of the loop.  attempt and data are rebound before they are
\* read again, so they are reset here.
NextBatch ==
  /\ IF i + BATCH_SIZE < Len(tickers)
     THEN i' = i + BATCH_SIZE /\ pc' = "fetch"
     ELSE i' = i /\ pc' = "frame"
  /\ attempt' = 0
  /\ calls' = 0
  /\ data' = NoData

\* yf.download returns (lines 60-68): any subset of the batch, any frames.
FetchOk ==
  /\ pc = "fetch"
  /\ \E dom \in SUBSET Range(Batch(i)) : \E d \in [dom -> Catalogue] : data' = d
  /\ calls' = calls + 1
  /\ lastSleep' = "none"
  /\ pc' = "eval"
  /\ UNCHANGED <<tickers, i, attempt, results, failed_tickers, rs_data, df,
                 batchLog, error>>

\* A retry loop that allows one attempt too many.
FetchRaiseOneMore ==
  /\ pc = "fetch"
  /\ calls' = calls + 1
  /\ lastSleep' = "retry"
  /\ IF attempt + 1 <= MAX_RETRIES
     THEN attempt' = attempt + 1 /\ pc' = "fetch"
     ELSE attempt' = attempt /\ pc' = "exhausted"
  /\ UNCHANGED <<tickers, i, data, results, failed_tickers, rs_data, df,
                 batchLog, error>>

\* yf.download raises (lines 69-72): sleep 10-20 s, then the next attempt,
\* or the else branch of the for loop once range(MAX_RETRIES) is used up.
FetchRaise ==
  /\ pc = "fetch"
  /\ calls' = calls + 1
  /\ lastSleep' = "retry"
  /\ IF attempt + 1 < MAX_RETRIES
     THEN attempt' = attempt + 1 /\ pc' = "fetch"
     ELSE attempt' = attempt /\ pc' = "exhausted"
  /\ UNCHANGED <<tickers, i, data, results, failed_tickers, rs_data, df,
                 batchLog, error>>

\* An else branch that leaves the batch loop (`break` for `continue`).
RetryExhaustedBreaks ==
  /\ pc = "exhausted"
  /\ failed_tickers' = failed_tickers \o
       [k \in 1..Len(Batch(i)) |->
          [Ticker |-> Batch(i)[k], Reason |-> "Download failed"]]
  /\ batchLog' = Append(batchLog, "exhausted")
  /\ pc' = "frame"
  /\ attempt' = 0 /\ calls' = 0 /\ data' = NoData
  /\ UNCHANGED <<tickers, i, results, rs_data, df, lastSleep, error>>

\* The for-else branch (lines 73-76): mark the batch and `continue`.
RetryExhausted ==
  /\ pc = "exhausted"
  /\ failed_tickers' = failed_tickers \o
       [k \in 1..Len(Batch(i)) |->
          [Ticker |-> Batch(i)[k], Reason |-> "Download failed"]]
  /\ batchLog' = Append(batchLog, "exhausted")
  /\ NextBatch
  /\ UNCHANGED <<tickers, results, rs_data, df, lastSleep, error>>

\* The per-ticker loop over the downloaded frame (lines 78-146).
EvaluateBatch ==
  /\ pc = "eval"
  /\ LET out == ScreenBatch(Batch(i), data, results, failed_tickers)
     IN  results' = out.results /\ failed_tickers' = out.failed
  /\ pc' = "sleep"
  /\ UNCHANGED <<tickers, i, attempt, data, rs_data, df, lastSleep, calls,
                 batchLog, error>>

\* print and time.sleep(SLEEP_BETWEEN_BATCHES) (lines 148-149).
InterBatchSleep ==
  /\ pc = "sleep"
  /\ lastSleep' = "batch"
  /\ batchLog' = Append(batchLog, "ok")
  /\ NextBatch
  /\ UNCHANGED <<tickers, results, failed_tickers, rs_data, df, error>>

\* ------------------------------------------ RS calculation, lines 154-204
ResultCols ==
  {"Ticker", "Sector", "Industry", "Price", "PctFromHigh", "PctFromLow",
   "MA50", "MA150", "MA200"}

NaN == [nan |-> TRUE, v |-> 0]

Num(x) == [nan |-> FALSE, v |-> x]

\* pd.DataFrame(list of dicts): no columns at all when the list is empty.
DataFrame(rows, cols) ==
  [cols |-> IF rows = <<>> THEN {} ELSE cols, rows |-> rows]

\* Series.dropna()
DropNa(runs) == SelectSeq(runs, LAMBDA r : ~r.nan)

\* prices.iloc[-k]
ValueFromEnd(prices, k) == WindowSum(prices, "close", k - 1, 1)

\* rate_of_change (lines 47-50): (last / base - 1) * 100, kept as the pair.
rate_of_change(prices, days) ==
  IF BarCount(prices) >= days
  THEN [nan |-> FALSE, last |-> ValueFromEnd(prices, 1),
        base |-> ValueFromEnd(prices, days)]
  ELSE [nan |-> TRUE, last |-> 0, base |-> 1]

\* round(0.40*roc_3m + 0.20*roc_6m + 0.20*roc_9m + 0.20*roc_12m, 2), in
\* hundredths (lines 184-193).
RSStrength(r3, r6, r9, r12) ==
  LET den == r3.base * r6.base * r9.base * r12.base
      num == 100 * ( 40 * r3.last * r6.base * r9.base * r12.base
                   + 20 * r6.last * r3.base * r9.base * r12.base
                   + 20 * r9.last * r3.base * r6.base * r12.base
                   + 20 * r12.last * r3.base * r6.base * r9.base
                   - 100 * den )
  IN  RoundHalfEven(num, den)

\* The loop `for ticker in df["Ticker"]` (lines 167-197).
RECURSIVE RSRows(_, _)
RSRows(survivors, rsd) ==
  IF survivors = <<>> THEN <<>>
  ELSE LET t == Head(survivors)
           rest == RSRows(Tail(survivors), rsd)
       IN  IF t \notin DOMAIN rsd \/ "Adj Close" \notin rsd[t].cols THEN rest
           ELSE LET prices == DropNa(rsd[t].runs)
                    roc_3m == rate_of_change(prices, 63)
                    roc_6m == rate_of_change(prices, 126)
                    roc_9m == rate_of_change(prices, 189)
                    roc_12m == rate_of_change(prices, 252)
                IN  IF roc_3m.nan \/ roc_6m.nan \/ roc_9m.nan \/ roc_12m.nan
                    THEN rest
                    ELSE <<[Ticker |-> t,
                            RS_Strength |-> RSStrength(roc_3m, roc_6m, roc_9m, roc_12m)]>>
                         \o rest

\* df.merge(rs_df, on="Ticker", how="left") (line 201): every row of df is
\* kept; RS_Strength is NaN where rs_df has no row for the ticker.
LeftMerge(rows, rs_rows) ==
  [k \in 1..Len(rows) |->
     LET hit == {j \in 1..Len(rs_rows) : rs_rows[j].Ticker = rows[k].Ticker}
     IN  [Ticker |-> rows[k].Ticker,
          Screen |-> rows[k],
          RS_Strength |-> IF hit = {} THEN NaN
                          ELSE Num(rs_rows[CHOOSE j \in hit : TRUE].RS_Strength)]]

\* (strengths.rank(pct=True) * 100).round() at position k (line 202): the
\* average rank among the non-NaN values over their count, times 100,
\* rounded half to even; NaN stays NaN (<NA> after astype("Int64")).
RS_RatingOverCountPlusOne(strengths, k) ==
  IF strengths[k].nan THEN NaN
  ELSE LET valid == {j \in DOMAIN strengths : ~strengths[j].nan}
           less == Cardinality({j \in valid : strengths[j].v < strengths[k].v})
       IN  Num(RoundHalfEven(100 * (less + 1), Cardinality(valid) + 1))

RS_Rating(strengths, k) ==
  IF strengths[k].nan THEN NaN
  ELSE LET valid == {j \in DOMAIN strengths : ~strengths[j].nan}
           less == Cardinality({j \in valid : strengths[j].v < strengths[k].v})
           same == Cardinality({j \in valid : strengths[j].v = strengths[k].v})
       IN  Num(RoundHalfEven(100 * (2 * less + same + 1), 2 * Cardinality(valid)))

Rated(rows) ==
  LET strengths == [k \in 1..Len(rows) |-> rows[k].RS_Strength]
  IN  [k \in 1..Len(rows) |->
         [Ticker |-> rows[k].Ticker,
          Screen |-> rows[k].Screen,
          RS_Strength |-> rows[k].RS_Strength,
          RS_Rating |-> RS_Rating(strengths, k)]]

\* sort_values("RS_Rating", ascending=False): ratings descend, <NA> last.
SortedDescending(rows) ==
  \A k \in 1..(Len(rows) - 1) :
     \/ rows[k + 1].RS_Rating.nan
     \/ /\ ~rows[k].RS_Rating.nan
        /\ rows[k].RS_Rating.v >= rows[k + 1].RS_Rating.v

\* ------------------------------------- provider answers, 18-month pull
AdjFrame(runs) == [cols |-> {"Close", "Adj Close"}, runs |-> runs]

RSCatalogue ==
  { [cols |-> {"Close"}, runs |-> <<Run(189, 8, 0), Run(63, 10, 0)>>],
    AdjFrame(<<Run(251, 8, 0)>>),                          \* no 12-month base
    AdjFrame(<<Run(189, 8, 0), Run(63, 10, 0)>>),          \* strength 15.00
    AdjFrame(<<Run(200, 5, 0), NaNRun(3), Run(52, 10, 0)>>) }  \* strength 100.00

\* df = pd.DataFrame(results); if not df.empty (lines 154-157).
BuildFrame ==
  /\ pc = "frame"
  /\ df' = DataFrame(results, ResultCols)
  /\ pc' = IF results = <<>> THEN "output" ELSE "rs_fetch"
  /\ UNCHANGED <<tickers, i, attempt, data, results, failed_tickers, rs_data,
                 lastSleep, calls, batchLog, error>>

\* The extended-history yf.download returns (lines 158-165).
RSFetchOk ==
  /\ pc = "rs_fetch"
  /\ \E dom \in SUBSET {df.rows[k].Ticker : k \in DOMAIN df.rows} :
       \E d \in [dom -> RSCatalogue] : rs_data' = d
  /\ pc' = "rs_score"
  /\ UNCHANGED <<tickers, i, attempt, data, results, failed_tickers, df,
                 lastSleep, calls, batchLog, error>>

\* The extended-history yf.download raises: nothing catches it.
RSFetchRaise ==
  /\ pc = "rs_fetch"
  /\ pc' = "crashed"
  /\ error' = "download error"
  /\ UNCHANGED <<tickers, i, attempt, data, results, failed_tickers, rs_data, df,
                 lastSleep, calls, batchLog>>

\* The scoring loop, rs_df, the merge and the rating (lines 167-204).  With
\* no rs_rows, rs_df has no "Ticker" column and the merge raises KeyError.
ScoreMergeRate ==
  /\ pc = "rs_score"
  /\ LET survivors == [k \in 1..Len(df.rows) |-> df.rows[k].Ticker]
         rs_df == DataFrame(RSRows(survivors, rs_data), {"Ticker", "RS_Strength"})
     IN  IF "Ticker" \notin rs_df.cols
         THEN pc' = "crashed" /\ error' = "KeyError: 'Ticker'" /\ df' = df
         ELSE /\ df' = [cols |-> df.cols \cup {"RS_Strength", "RS_Rating"},
                        rows |-> Rated(LeftMerge(df.rows, rs_df.rows))]
              /\ pc' = "output"
              /\ error' = error
  /\ UNCHANGED <<tickers, i, attempt, data, results, failed_tickers, rs_data,
                 lastSleep, calls, batchLog>>

\* ------------------------------------------------- output, lines 209-213
\* df.sort_values("RS_Rating", ascending=False) raises KeyError when df has
\* no such column; else the table is written in some descending order (the
\* order of equal ratings is the sort algorithm's).
Output ==
  /\ pc = "output"
  /\ IF "RS_Rating" \notin df.cols
     THEN pc' = "crashed" /\ error' = "KeyError: 'RS_Rating'" /\ df' = df
     ELSE /\ \E p \in Permutations(DOMAIN df.rows) :
               LET sorted == [k \in DOMAIN df.rows |-> df.rows[p[k]]]
               IN  SortedDescending(sorted) /\ df' = [df EXCEPT !.rows = sorted]
          /\ pc' = "done"
          /\ error' = error
  /\ UNCHANGED <<tickers, i, attempt, data, results, failed_tickers, rs_data,
                 lastSleep, calls, batchLog>>

\* ------------------------------------------- the rating on its own
ScoreValues == {Num(v) : v \in {-1000, 1000, 2000, 3000}} \cup {NaN}

\* n distinct scores in scrambled order.
DistinctScores(n) == [k \in 1..n |-> Num((37 * k) % 211)]

ScoreLists ==
  UNION {[1..n -> ScoreValues] : n \in 1..MaxScores}
    \cup {DistinctScores(n) : n \in 1..MaxDistinct}

\* The merged frame of line 201 holding the given RS_Strength column.
MergedFrame(strengths) ==
  [cols |-> ResultCols \cup {"RS_Strength"},
   rows |-> [k \in DOMAIN strengths |->
               [Ticker |-> k, Screen |-> [Ticker |-> k],
                RS_Strength |-> strengths[k]]]]

InitRanker ==
  /\ tickers = <<>>
  /\ i = 0
  /\ attempt = 0
  /\ pc = "rank"
  /\ data = NoData
  /\ results = <<>>
  /\ failed_tickers = <<>>
  /\ rs_data = NoData
  /\ df \in {MergedFrame(s) : s \in ScoreLists}
  /\ lastSleep = "none"
  /\ calls = 0
  /\ batchLog = <<>>
  /\ error = "none"

\* df["RS_Rating"] = ... (line 202) applied to the merged frame.
ApplyRating ==
  /\ pc = "rank"
  /\ df' = [cols |-> df.cols \cup {"RS_Rating"}, rows |-> Rated(df.rows)]
  /\ pc' = "rated"
  /\ UNCHANGED <<tickers, i, attempt, data, results, failed_tickers, rs_data,
                 lastSleep, calls, batchLog, error>>

NextRanker == ApplyRating

SpecRanker == InitRanker /\ [][NextRanker]_vars

Next ==
  \/ FetchOk \/ FetchRaise \/ RetryExhausted \/ EvaluateBatch \/ InterBatchSleep
  \/ BuildFrame \/ RSFetchOk \/ RSFetchRaise \/ ScoreMergeRate \/ Output

Spec == Init /\ [][Next]_vars

\* ------------------------------------------------------------ vocabulary
Survivors == {results[k].Ticker : k \in DOMAIN results}

FinalTickers == {df.rows[k].Ticker : k \in DOMAIN df.rows}

\* Records of failed_tickers (the only diagnostic the script writes) for t.
FailureCount(t) ==
  Cardinality({k \in DOMAIN failed_tickers : failed_tickers[k].Ticker = t})

ReasonCount(t, reason) ==
  Cardinality({k \in DOMAIN failed_tickers :
                 /\ failed_tickers[k].Ticker = t
                 /\ failed_tickers[k].Reason = reason})

\* 1-based number of the batch that holds ticker t.
BatchNumberOf(t) ==
  ((CHOOSE k \in DOMAIN tickers : tickers[k] = t) - 1) \div BATCH_SIZE + 1

InBatchLoop == pc \in {"fetch", "eval", "sleep", "exhausted"}

\* The predicates of the cascade that come before the two range gates.
PassesEarlierPredicates(frame) ==
  /\ BarCount(frame.runs) >= MA_LONG
  /\ {"Close", "Volume"} \subseteq frame.cols
  /\ Rolling(frame.runs, MA_SHORT, 0).def
  /\ Rolling(frame.runs, MA_MED, 0).def
  /\ Rolling(frame.runs, MA_LONG, 0).def
  /\ StackOk(frame.runs)
  /\ ~SlopeFails(frame.runs)

\* ------------------------------------------------------------------ C1
\* C1: at the end of a completed run every ticker of the universe is in
\* exactly one terminal bucket: a row of the final table, exactly one
\* failure record with a reason, or a JoinMiss record.
C1_ExactlyOneBucket ==
  pc = "done" =>
    \A t \in Range(tickers) :
      LET final == t \in FinalTickers
          joinMiss == ReasonCount(t, "JoinMiss") = 1
          failure == FailureCount(t) = 1 /\ ReasonCount(t, "JoinMiss") = 0
      IN  /\ final \/ joinMiss \/ failure
          /\ ~(final /\ joinMiss) /\ ~(final /\ failure)
          /\ FailureCount(t) <= 1

\* ------------------------------------------------------------------ C2
\* C2: per batch, with N = MAX_RETRIES: k < N raising attempts followed by a
\* success lead to the evaluation of that batch's data with no download
\* failure mark on its tickers; N raising attempts end the attempts, and
\* every ticker of the batch gets exactly one download failure mark.
C2_RetryBudget ==
  /\ calls <= MAX_RETRIES
  /\ pc \in {"eval", "sleep"} =>
       /\ calls = attempt + 1
       /\ attempt < MAX_RETRIES
       /\ \A t \in Range(Batch(i)) : ReasonCount(t, "Download failed") = 0
  /\ pc = "sleep" =>
       \A t \in DOMAIN data :
          (t \in Survivors) <=> (TrendScreen(data[t]) = "Pass")
  /\ pc = "exhausted" => calls = MAX_RETRIES
  /\ \A b \in DOMAIN batchLog :
       \A t \in Range(Batch((b - 1) * BATCH_SIZE)) :
          ReasonCount(t, "Download failed") =
             IF batchLog[b] = "exhausted" THEN 1 ELSE 0

\* Two raising attempts and a third that succeeds, after a batch that used
\* up its three attempts.
C2_Witness ==
  /\ pc = "sleep"
  /\ attempt = 2
  /\ calls = 3
  /\ batchLog = <<"exhausted">>
  /\ Survivors # {}

\* ------------------------------------------------------------------ C3
\* C3: an exhausted batch never aborts the run: every batch of the list is
\* processed in order, none is skipped, and download failure marks are only
\* on tickers of exhausted batches.
C3_ExhaustionIsLocal ==
  /\ InBatchLoop => i % BATCH_SIZE = 0 /\ i < Len(tickers)
  /\ Len(batchLog) = IF InBatchLoop THEN i \div BATCH_SIZE ELSE NumBatches
  /\ \A k \in DOMAIN failed_tickers :
       failed_tickers[k].Reason = "Download failed" =>
          LET b == BatchNumberOf(failed_tickers[k].Ticker)
          IN  b \in DOMAIN batchLog /\ batchLog[b] = "exhausted"

\* The first batch was exhausted, the second was fetched and evaluated and
\* produced a survivor.
C3_Witness ==
  /\ pc = "frame"
  /\ batchLog = <<"exhausted", "ok">>
  /\ Survivors # {}
  /\ \A t \in Range(Batch(0)) : ReasonCount(t, "Download failed") = 1

\* ------------------------------------------------------------------ C4
\* C4: a survivor of the trend and liquidity filters that is absent from
\* the extended-history fetch is not in the final table and has exactly one
\* JoinMiss diagnostic.
C4_JoinMiss ==
  pc = "done" =>
    \A t \in Survivors :
      t \notin DOMAIN rs_data =>
         t \notin FinalTickers /\ ReasonCount(t, "JoinMiss") = 1

\* ------------------------------------------------------------------ C5
\* C5: the run always reaches its output step and yields a (possibly empty)
\* candidate table: no outcome of the earlier stages and no provider
\* behaviour ends it with an error.
C5_NoError == pc # "crashed"

\* ------------------------------------------------------------------ C6
\* C6: a ticker whose fetched series is shorter than MA_LONG bars never
\* becomes a survivor and is recorded with the reason InsufficientHistory.
C6_InsufficientHistory ==
  pc = "sleep" =>
    \A t \in DOMAIN data :
      BarCount(data[t].runs) < MA_LONG =>
         t \notin Survivors /\ FailureCount(t) = 1

\* ------------------------------------------------------------------ C7
\* C7: of the tickers that pass every earlier predicate, exactly those with
\* price >= 1.25 * min(close) pass the low gate and, of these, exactly those
\* with price >= 0.75 * max(close) pass the high gate; both gates are
\* inclusive at their thresholds.
C7_GatesInclusive ==
  pc = "sleep" =>
    \A t \in DOMAIN data :
      PassesEarlierPredicates(data[t]) =>
        LET price == LastClose(data[t].runs).sum
            low == MinClose(data[t].runs)
            high == MaxClose(data[t].runs)
        IN  /\ (TrendScreen(data[t]) # "Low52w") <=> (4 * price >= 5 * low)
            /\ 4 * price >= 5 * low =>
                 ((TrendScreen(data[t]) # "High52w") <=> (4 * price >= 3 * high))
            /\ (t \in Survivors) <=>
                 /\ 4 * price >= 5 * low
                 /\ 4 * price >= 3 * high
                 /\ ~VolumeFails(data[t].runs)

\* A survivor with price/low = 1.25 and price/high = 0.75 exactly, next to a
\* ticker rejected with a ratio just under a threshold.
C7_Witness ==
  /\ pc = "sleep"
  /\ \E t \in DOMAIN data :
       /\ t \in Survivors
       /\ 4 * LastClose(data[t].runs).sum = 5 * MinClose(data[t].runs)
       /\ 4 * LastClose(data[t].runs).sum = 3 * MaxClose(data[t].runs)
  /\ \E t \in DOMAIN data :
       /\ PassesEarlierPredicates(data[t])
       /\ t \notin Survivors
       /\ \/ 4 * LastClose(data[t].runs).sum < 5 * MinClose(data[t].runs)
          \/ 4 * LastClose(data[t].runs).sum < 3 * MaxClose(data[t].runs)

\* ------------------------------------------------------------------ C8
\* Sum of the ranks a .. b.
SumRanks(a, b) == (b * (b + 1) - (a - 1) * a) \div 2

\* C8: every score gets an integer rating; tied scores share one rating, the
\* rounded mean percentile of their tied block; n <= 100 scores without
\* ties get ratings strictly increasing with the score, the maximum gets
\* 100, and a single score gets 100.
C8_PercentileRanks ==
  "RS_Rating" \in df.cols =>
    LET rows == df.rows
        valid == {k \in DOMAIN rows : ~rows[k].RS_Strength.nan}
        n == Cardinality(valid)
        score(k) == rows[k].RS_Strength.v
        rating(k) == rows[k].RS_Rating.v
        below(k) == Cardinality({j \in valid : score(j) < score(k)})
        tied(k) == Cardinality({j \in valid : score(j) = score(k)})
        noTies == \A j, k \in valid : j # k => score(j) # score(k)
    IN  /\ \A k \in DOMAIN rows :
             rows[k].RS_Rating.nan <=> rows[k].RS_Strength.nan
        /\ \A j, k \in valid : score(j) = score(k) => rating(j) = rating(k)
        /\ \A k \in valid :
             rating(k) =
               RoundHalfEven(100 * SumRanks(below(k) + 1, below(k) + tied(k)),
                             tied(k) * n)
        /\ (noTies /\ n <= 100) =>
             /\ \A j, k \in valid : score(j) < score(k) => rating(j) < rating(k)
             /\ \A k \in valid : below(k) = n - 1 => rating(k) = 100
        /\ n = 1 => \A k \in valid : rating(k) = 100

\* Three distinct scores rated 33, 67 and 100 in the order of the scores.
C8_Witness ==
  /\ pc = "rated"
  /\ Len(df.rows) = 3
  /\ \A k \in 1..3 : ~df.rows[k].RS_Strength.nan
  /\ \E a, b, c \in 1..3 :
       /\ df.rows[a].RS_Strength.v < df.rows[b].RS_Strength.v
       /\ df.rows[b].RS_Strength.v < df.rows[c].RS_Strength.v
       /\ df.rows[a].RS_Rating.v = 33
       /\ df.rows[b].RS_Rating.v = 67
       /\ df.rows[c].RS_Rating.v = 100

\* ------------------------------------------------------------------ C9
\* C9: the final table is sorted by descending RS rating and every row of
\* it has a rating.
C9_SortedAndRated ==
  pc = "done" =>
    /\ \A k \in DOMAIN df.rows : ~df.rows[k].RS_Rating.nan
    /\ \A k \in 1..(Len(df.rows) - 1) :
         df.rows[k].RS_Rating.v >= df.rows[k + 1].RS_Rating.v

\* ----------------------------------------------------------------- C10
\* C10: the first download attempt of every batch but the first comes after
\* the inter-batch delay, whether the batch before it was evaluated or
\* exhausted its retries.
C10_InterBatchDelay ==
  (pc = "fetch" /\ calls = 0 /\ i > 0) => lastSleep = "batch"

====
